---- MODULE Spec2Model ----
(***************************************************************************)
(* Model of tools/llm_api.py: the layered environment loader               *)
(* (load_environment), the media encoder (encode_image_file), the client   *)
(* factory (create_llm_client), the request builder and invoker            *)
(* (query_llm) and the command-line front end (main).                      *)
(*                                                                         *)
(* Python's Optional values are modelled as sequences of length at most    *)
(* one: <<>> is None (or "not set"), <<v>> is the value v.  Diagnostics    *)
(* written to standard error are not part of the modelled state.           *)
(***************************************************************************)
EXTENDS Integers, Sequences, FiniteSets, TLC

VARIABLES
    runAs,        \* "script" (__name__ == "__main__") or "module" (imported)
    pc,           \* "import" before the module-level load_environment(), "ready", "exited"
    sysenv,       \* os.environ as the system defined it when the process started
    files,        \* the three environment files in the working directory
    environ,      \* os.environ
    loads,        \* number of load_environment() calls so far
    calls,        \* number of query_llm() calls so far
    last,         \* arguments and outcome of the latest query_llm() call
    clientsBuilt, \* number of OpenAI(api_key=...) constructions so far
    requests,     \* number of client.chat.completions.create calls so far
    stdout,       \* lines printed to standard output
    exitCode      \* <<>> while running, <<n>> once the process has exited

vars == <<runAs, pc, sysenv, files, environ, loads, calls, last,
          clientsBuilt, requests, stdout, exitCode>>

(***************************************************************************)
(* Bounds                                                                  *)
(***************************************************************************)
MaxLoads == 2
MaxCalls == 2

(***************************************************************************)
(* Optional values                                                         *)
(***************************************************************************)
None == <<>>

Some(v) == <<v>>

\* Python truthiness of an Optional[str]: None and "" are falsy.
Truthy(o) == o # None /\ o[1] # ""

(***************************************************************************)
(* Config Loader                                                           *)
(***************************************************************************)
API_KEY == "OPENAI_API_KEY"

Keys == {API_KEY, "OTHER_VAR"}

env_files == <<".env.local", ".env", ".env.example">>

EnvFileNames == {env_files[i] : i \in 1..Len(env_files)}

NoDefs == [k \in Keys |-> None]

\* The value a file gives to a key it defines non-trivially: one distinct
\* value per file, so that the origin of an adopted value is visible.
FileValue(f) ==
    CASE f = ".env.local"   -> "from-local"
      [] f = ".env"         -> "from-env"
      [] f = ".env.example" -> "from-example"

\* The possible states of file f when its entries are over the keys ks and
\* each defined key has a value in vals: absent, or present with any
\* assignment (a key may be missing from the file).
FileStates(f, ks, vals) ==
    {[exists |-> FALSE, defs |-> NoDefs]} \cup
    {[exists |-> TRUE, defs |-> [k \in Keys |-> IF k \in ks THEN d[k] ELSE None]] :
        d \in [ks -> {None} \cup {Some(v) : v \in vals}]}

\* load_dotenv(dotenv_path=...) with override=True: every key the file
\* defines is written, whether or not the environment already has it.
load_dotenv_override(env, defs) ==
    [k \in Keys |-> IF defs[k] = None THEN env[k] ELSE defs[k]]

\* load_dotenv(dotenv_path=...) with the default override=False: a key the
\* file defines is written only if the environment does not have it yet.
load_dotenv(env, defs) ==
    [k \in Keys |->
        IF defs[k] = None THEN env[k]
        ELSE IF env[k] # None THEN env[k]
        ELSE defs[k]]

\* The for loop of load_environment from index i on: each file that exists
\* is loaded, in the order of env_files.
RECURSIVE load_from(_, _, _)
load_from(env, fs, i) ==
    IF i > Len(env_files) THEN env
    ELSE LET f == fs[env_files[i]]
         IN  load_from(IF f.exists THEN load_dotenv(env, f.defs) ELSE env, fs, i + 1)

load_environment(env, fs) == load_from(env, fs, 1)

(***************************************************************************)
(* Media Encoder                                                           *)
(***************************************************************************)
B64Alphabet ==
    << "A","B","C","D","E","F","G","H","I","J","K","L","M","N","O","P",
       "Q","R","S","T","U","V","W","X","Y","Z","a","b","c","d","e","f",
       "g","h","i","j","k","l","m","n","o","p","q","r","s","t","u","v",
       "w","x","y","z","0","1","2","3","4","5","6","7","8","9","+","/" >>

B64Char(n) == B64Alphabet[n + 1]

\* base64.b64encode(...).decode('utf-8') of a sequence of bytes.
RECURSIVE b64encode(_)
b64encode(bytes) ==
    IF Len(bytes) = 0 THEN ""
    ELSE IF Len(bytes) = 1 THEN
        B64Char(bytes[1] \div 4) \o B64Char((bytes[1] % 4) * 16) \o "=="
    ELSE IF Len(bytes) = 2 THEN
        B64Char(bytes[1] \div 4)
        \o B64Char((bytes[1] % 4) * 16 + bytes[2] \div 16)
        \o B64Char((bytes[2] % 16) * 4) \o "="
    ELSE
        B64Char(bytes[1] \div 4)
        \o B64Char((bytes[1] % 4) * 16 + bytes[2] \div 16)
        \o B64Char((bytes[2] % 16) * 4 + bytes[3] \div 64)
        \o B64Char(bytes[3] % 64)
        \o b64encode(SubSeq(bytes, 4, Len(bytes)))

\* The image files that exist in the working directory, with their bytes.
ImageFiles ==
    [p \in {"photo.jpg", "blob"} |->
        CASE p = "photo.jpg" -> <<255, 216, 255, 224>>
          [] p = "blob"      -> <<137, 80>>]

\* Paths a caller may pass; "missing.png" names no file.
ImagePaths == DOMAIN ImageFiles \cup {"missing.png"}

\* mimetypes.guess_type(image_path)[0] on the modelled paths: decided by the
\* extension, None when there is none.
guess_type(p) ==
    CASE p = "missing.png" -> Some("image/png")
      [] p = "photo.jpg"   -> Some("image/jpeg")
      [] OTHER             -> None

\* encode_image_file: exc is the exception that leaves the function, if any.
encode_image_file(image_path) ==
    LET guessed   == guess_type(image_path)
        mime_type == IF guessed = None THEN "image/png" ELSE guessed[1]
    IN  IF image_path \notin DOMAIN ImageFiles
        THEN [exc |-> Some("FileNotFoundError"), encoded |-> "", mime |-> mime_type]
        ELSE [exc |-> None, encoded |-> b64encode(ImageFiles[image_path]),
              mime |-> mime_type]

(***************************************************************************)
(* Client factory                                                          *)
(***************************************************************************)
\* create_llm_client: os.getenv of the credential; "if not api_key" rejects
\* both an unset and an empty credential.
create_llm_client(env) ==
    IF ~Truthy(env[API_KEY])
    THEN [exc |-> Some("ValueError"), client |-> None]
    ELSE [exc |-> None, client |-> Some([api_key |-> env[API_KEY][1]])]

(***************************************************************************)
(* Request Builder                                                         *)
(***************************************************************************)
DefaultModel == "gpt-4o"

ReasoningModel == "o1"

\* temperature 0.7, in tenths
TemperatureTenths == 7

text_block(prompt) == [type |-> "text", text |-> prompt]

image_block(url) == [type |-> "image_url", image_url |-> [url |-> url]]

data_url(mime_type, encoded_image) == "data:" \o mime_type \o ";base64," \o encoded_image

\* A builder that extends the content list with the two blocks instead of
\* replacing it.
build_messages_extend(prompt, image_path) ==
    LET appended == <<text_block(prompt)>>
    IN  IF Truthy(image_path)
        THEN LET e == encode_image_file(image_path[1])
             IN  IF e.exc # None
                 THEN [exc |-> e.exc, messages |-> <<>>]
                 ELSE [exc |-> None,
                       messages |-> << [role |-> "user",
                                        content |-> appended \o
                                            << text_block(prompt),
                                               image_block(data_url(e.mime, e.encoded)) >>] >>]
        ELSE [exc |-> None, messages |-> << [role |-> "user", content |-> appended] >>]

\* The message list: one user message whose content gets the text block
\* appended and, if image_path is truthy, is then replaced by the text block
\* followed by the image block.  exc is the exception of the encoder, if any.
build_messages(prompt, image_path) ==
    LET appended == <<text_block(prompt)>>
    IN  IF Truthy(image_path)
        THEN LET e == encode_image_file(image_path[1])
             IN  IF e.exc # None
                 THEN [exc |-> e.exc, messages |-> <<>>]
                 ELSE [exc |-> None,
                       messages |-> << [role |-> "user",
                                        content |-> << text_block(prompt),
                                                       image_block(data_url(e.mime, e.encoded)) >>] >>]
        ELSE [exc |-> None, messages |-> << [role |-> "user", content |-> appended] >>]

\* A builder that adds the o1 parameters without deleting temperature.
build_kwargs_keepTemperature(model, messages) ==
    IF model = ReasoningModel
    THEN [model |-> model, messages |-> messages, temperature |-> TemperatureTenths,
          response_format |-> [type |-> "text"], reasoning_effort |-> "low"]
    ELSE [model |-> model, messages |-> messages, temperature |-> TemperatureTenths]

\* kwargs: the base descriptor, with the o1-specific override.
build_kwargs(model, messages) ==
    IF model = ReasoningModel
    THEN [model |-> model, messages |-> messages,
          response_format |-> [type |-> "text"], reasoning_effort |-> "low"]
    ELSE [model |-> model, messages |-> messages, temperature |-> TemperatureTenths]

(***************************************************************************)
(* Client Invoker                                                          *)
(***************************************************************************)
\* What the transport does with the one request it may get: it answers with
\* a message text, or it raises.
Transports ==
    {[ok |-> FALSE, content |-> ""]} \cup
    {[ok |-> TRUE, content |-> c] : c \in {"", "Hi there"}}

\* A dispatch that tries once more after a failure.
dispatch_retry(client, kwargs, transport) ==
    IF transport.ok
    THEN [exc |-> None, content |-> Some(transport.content),
          sent |-> << [client |-> client, kwargs |-> kwargs] >>]
    ELSE [exc |-> Some("APIError"), content |-> None,
          sent |-> << [client |-> client, kwargs |-> kwargs],
                      [client |-> client, kwargs |-> kwargs] >>]

\* response = client.chat.completions.create(**kwargs) and the extraction of
\* response.choices[0].message.content.  sent lists the requests issued.
dispatch(client, kwargs, transport) ==
    IF transport.ok
    THEN [exc |-> None, content |-> Some(transport.content),
          sent |-> << [client |-> client, kwargs |-> kwargs] >>]
    ELSE [exc |-> Some("APIError"), content |-> None,
          sent |-> << [client |-> client, kwargs |-> kwargs] >>]

\* The statements inside the try block of query_llm.
try_body(client, prompt, model, image_path, transport) ==
    LET m  == IF model = None THEN DefaultModel ELSE model[1]
        bm == build_messages(prompt, image_path)
    IN  IF bm.exc # None
        THEN [exc |-> bm.exc, value |-> None, sent |-> <<>>]
        ELSE LET d == dispatch(client, build_kwargs(m, bm.messages), transport)
             IN  [exc |-> d.exc, value |-> d.content, sent |-> d.sent]

\* query_llm with the client construction moved inside the try block.
query_llm_createInTry(env, prompt, client, model, image_path, transport) ==
    LET made == IF client = None THEN create_llm_client(env)
                ELSE [exc |-> None, client |-> client]
    IN  IF made.exc # None
        THEN [exc |-> None, result |-> None, caught |-> made.exc,
              sent |-> <<>>, built |-> <<>>]
        ELSE LET t     == try_body(made.client[1], prompt, model, image_path, transport)
                 built == IF client = None THEN <<made.client[1]>> ELSE <<>>
             IN  IF t.exc # None
                 THEN [exc |-> None, result |-> None, caught |-> t.exc,
                       sent |-> t.sent, built |-> built]
                 ELSE [exc |-> None, result |-> t.value, caught |-> None,
                       sent |-> t.sent, built |-> built]

\* query_llm whose except clause lets the encoder's I/O error through.
query_llm_ioPropagates(env, prompt, client, model, image_path, transport) ==
    LET made == IF client = None THEN create_llm_client(env)
                ELSE [exc |-> None, client |-> client]
    IN  IF made.exc # None
        THEN [exc |-> made.exc, result |-> None, caught |-> None,
              sent |-> <<>>, built |-> <<>>]
        ELSE LET t     == try_body(made.client[1], prompt, model, image_path, transport)
                 built == IF client = None THEN <<made.client[1]>> ELSE <<>>
             IN  IF t.exc = Some("FileNotFoundError")
                 THEN [exc |-> t.exc, result |-> None, caught |-> None,
                       sent |-> t.sent, built |-> built]
                 ELSE IF t.exc # None
                 THEN [exc |-> None, result |-> None, caught |-> t.exc,
                       sent |-> t.sent, built |-> built]
                 ELSE [exc |-> None, result |-> t.value, caught |-> None,
                       sent |-> t.sent, built |-> built]

\* query_llm without the except clause.
query_llm_noCatch(env, prompt, client, model, image_path, transport) ==
    LET made == IF client = None THEN create_llm_client(env)
                ELSE [exc |-> None, client |-> client]
    IN  IF made.exc # None
        THEN [exc |-> made.exc, result |-> None, caught |-> None,
              sent |-> <<>>, built |-> <<>>]
        ELSE LET t     == try_body(made.client[1], prompt, model, image_path, transport)
                 built == IF client = None THEN <<made.client[1]>> ELSE <<>>
             IN  IF t.exc # None
                 THEN [exc |-> t.exc, result |-> None, caught |-> None,
                       sent |-> t.sent, built |-> built]
                 ELSE [exc |-> None, result |-> t.value, caught |-> None,
                       sent |-> t.sent, built |-> built]

\* query_llm that constructs a client whether or not one was supplied.
query_llm_alwaysCreate(env, prompt, client, model, image_path, transport) ==
    LET made == create_llm_client(env)
    IN  IF made.exc # None
        THEN [exc |-> made.exc, result |-> None, caught |-> None,
              sent |-> <<>>, built |-> <<>>]
        ELSE LET t     == try_body(made.client[1], prompt, model, image_path, transport)
                 built == <<made.client[1]>>
             IN  IF t.exc # None
                 THEN [exc |-> None, result |-> None, caught |-> t.exc,
                       sent |-> t.sent, built |-> built]
                 ELSE [exc |-> None, result |-> t.value, caught |-> None,
                       sent |-> t.sent, built |-> built]

\* query_llm.  exc: the exception that leaves the call, if any; result: the
\* return value when none does (None is Python's None); caught: the
\* exception the except clause absorbed, if any; sent: the requests issued;
\* built: the clients constructed by the call.
query_llm(env, prompt, client, model, image_path, transport) ==
    LET made == IF client = None THEN create_llm_client(env)
                ELSE [exc |-> None, client |-> client]
    IN  IF made.exc # None
        THEN [exc |-> made.exc, result |-> None, caught |-> None,
              sent |-> <<>>, built |-> <<>>]
        ELSE LET t     == try_body(made.client[1], prompt, model, image_path, transport)
                 built == IF client = None THEN <<made.client[1]>> ELSE <<>>
             IN  IF t.exc # None
                 THEN [exc |-> None, result |-> None, caught |-> t.exc,
                       sent |-> t.sent, built |-> built]
                 ELSE [exc |-> None, result |-> t.value, caught |-> None,
                       sent |-> t.sent, built |-> built]

(***************************************************************************)
(* CLI Front-End                                                           *)
(***************************************************************************)
\* main after argument parsing: q is the query_llm call, out what is printed
\* to standard output, exit the exit status.  An exception that leaves
\* query_llm is not handled: the interpreter exits with status 1.
main(env, args, transport) ==
    LET r == query_llm(env, args.prompt, None, args.model, args.image, transport)
    IN  IF r.exc # None THEN [q |-> r, out |-> <<>>, exit |-> 1]
        ELSE IF Truthy(r.result) THEN [q |-> r, out |-> <<r.result[1]>>, exit |-> 0]
        ELSE [q |-> r, out |-> <<>>, exit |-> 1]

(***************************************************************************)
(* The process                                                             *)
(***************************************************************************)
Prompts == {"Hello", "Describe this"}

Models == {None, Some(ReasoningModel), Some("o1-mini")}

Images == {None, Some("")} \cup {Some(p) : p \in ImagePaths}

Clients == {None, Some([api_key |-> "sk-supplied"])}

SystemValues == {None, Some(""), Some("from-system")}

\* Every combination of the three files in which only the files in names
\* may exist, with entries over the keys ks, a defined key of file f having a
\* value in {FileValue(f)} \cup extra.
FileSystems(names, ks, extra) ==
    {fs \in [EnvFileNames ->
                UNION {FileStates(f, ks, {FileValue(f)} \cup extra) : f \in EnvFileNames}] :
        \A f \in EnvFileNames :
            /\ fs[f] \in FileStates(f, ks, {FileValue(f)} \cup extra)
            /\ f \notin names => ~fs[f].exists}

NoCall ==
    [called |-> FALSE, prompt |-> "", client |-> None, model |-> None,
     image_path |-> None, transport |-> [ok |-> FALSE, content |-> ""],
     api_key |-> None, exc |-> None, result |-> None, caught |-> None,
     sent |-> <<>>, built |-> <<>>]

Call(prompt, client, model, image_path, transport, env, r) ==
    [called |-> TRUE, prompt |-> prompt, client |-> client, model |-> model,
     image_path |-> image_path, transport |-> transport,
     api_key |-> env[API_KEY], exc |-> r.exc, result |-> r.result,
     caught |-> r.caught, sent |-> r.sent, built |-> r.built]

\* The process before the module-level statements have run.
Start(FS, SE) ==
    /\ runAs \in {"script", "module"}
    /\ pc = "import"
    /\ files \in FS
    /\ sysenv \in SE
    /\ environ = sysenv
    /\ loads = 0
    /\ calls = 0
    /\ last = NoCall
    /\ clientsBuilt = 0
    /\ requests = 0
    /\ stdout = <<>>
    /\ exitCode = None

\* Environments for the loader: both keys, files may also define a key as
\* the empty string.
InitEnv == Start(FileSystems(EnvFileNames, Keys, {""}), [Keys -> SystemValues])

\* Environments for the query path: only the credential varies, and only
\* .env may define it.
Init ==
    Start(FileSystems({".env"}, {API_KEY}, {}),
          {e \in [Keys -> SystemValues] : e["OTHER_VAR"] = None})

\* The for loop with override=True.
RECURSIVE load_from_override(_, _, _)
load_from_override(env, fs, i) ==
    IF i > Len(env_files) THEN env
    ELSE LET f == fs[env_files[i]]
         IN  load_from_override(IF f.exists THEN load_dotenv_override(env, f.defs) ELSE env,
                                fs, i + 1)

\* A loader whose re-invocation refreshes the environment from the files.
LoadEnvironment_refresh ==
    /\ pc \in {"import", "ready"}
    /\ pc = "ready" => runAs = "module"
    /\ loads < MaxLoads
    /\ environ' = IF loads = 0 THEN load_environment(environ, files)
                  ELSE load_from_override(environ, files, 1)
    /\ loads' = loads + 1
    /\ pc' = "ready"
    /\ UNCHANGED <<runAs, sysenv, files, calls, last, clientsBuilt, requests,
                   stdout, exitCode>>

\* load_environment(): at module import, and again whenever a program that
\* imported the module calls it.
LoadEnvironment ==
    /\ pc \in {"import", "ready"}
    /\ pc = "ready" => runAs = "module"
    /\ loads < MaxLoads
    /\ environ' = load_environment(environ, files)
    /\ loads' = loads + 1
    /\ pc' = "ready"
    /\ UNCHANGED <<runAs, sysenv, files, calls, last, clientsBuilt, requests,
                   stdout, exitCode>>

\* query_llm(prompt, client, model, image_path) called by a program that
\* imported the module.  An exception that leaves the call is left to the
\* caller.
QueryLlm ==
    /\ pc = "ready"
    /\ runAs = "module"
    /\ calls < MaxCalls
    /\ \E prompt \in Prompts, client \in Clients, model \in Models,
          image_path \in Images, transport \in Transports :
          LET r == query_llm(environ, prompt, client, model, image_path, transport)
          IN  /\ last' = Call(prompt, client, model, image_path, transport, environ, r)
              /\ clientsBuilt' = clientsBuilt + Len(r.built)
              /\ requests' = requests + Len(r.sent)
    /\ calls' = calls + 1
    /\ UNCHANGED <<runAs, pc, sysenv, files, environ, loads, stdout, exitCode>>

\* main(): the script run, from the parsed arguments to the exit.
Main ==
    /\ pc = "ready"
    /\ runAs = "script"
    /\ \E prompt \in Prompts, model \in Models, image_path \in Images,
          transport \in Transports :
          LET m == main(environ, [prompt |-> prompt, model |-> model, image |-> image_path],
                        transport)
          IN  /\ last' = Call(prompt, None, model, image_path, transport, environ, m.q)
              /\ clientsBuilt' = clientsBuilt + Len(m.q.built)
              /\ requests' = requests + Len(m.q.sent)
              /\ stdout' = stdout \o m.out
              /\ exitCode' = Some(m.exit)
    /\ calls' = calls + 1
    /\ pc' = "exited"
    /\ UNCHANGED <<runAs, sysenv, files, environ, loads>>

NextEnv == LoadEnvironment

Next == LoadEnvironment \/ QueryLlm \/ Main

SpecEnv == InitEnv /\ [][NextEnv]_vars

Spec == Init /\ [][Next]_vars

(***************************************************************************)
(* Properties of the Config Loader (checked under SpecEnv)                 *)
(***************************************************************************)
\* The positions in env_files of the files that exist and define k.
Definers(k) ==
    {i \in 1..Len(env_files) :
        files[env_files[i]].exists /\ files[env_files[i]].defs[k] # None}

\* The value precedence gives to k: the system's if the system defined k,
\* otherwise that of the first file of env_files that defines k.
HighestPrecedence(k) ==
    IF sysenv[k] # None THEN sysenv[k]
    ELSE IF Definers(k) = {} THEN None
    ELSE LET first == CHOOSE i \in Definers(k) : \A j \in Definers(k) : i <= j
         IN  files[env_files[first]].defs[k]

\* C1: after load_environment() has run, every variable has the value the
\* system environment gave it if it defined the variable, and otherwise the
\* value of the highest-precedence file that defines it
\* (.env.local > .env > .env.example), whichever files exist.
C1_Precedence ==
    loads >= 1 => \A k \in Keys : environ[k] = HighestPrecedence(k)

\* All three files exist and define both keys, the system defines only
\* OTHER_VAR, and the loader has run.
C1_Witness ==
    /\ loads >= 1
    /\ \A f \in EnvFileNames :
          files[f].exists /\ \A k \in Keys : files[f].defs[k] = Some(FileValue(f))
    /\ sysenv[API_KEY] = None
    /\ sysenv["OTHER_VAR"] = Some("from-system")
    /\ environ[API_KEY] = Some("from-local")
    /\ environ["OTHER_VAR"] = Some("from-system")

NoEnvFile == \A f \in EnvFileNames : ~files[f].exists

\* C9: a further call of load_environment(), the files being the same,
\* changes no variable of the environment; and when none of the three files
\* exists the environment is exactly the system's.
C9_Idempotent ==
    /\ [][loads >= 1 /\ loads' = loads + 1 => environ' = environ]_vars
    /\ [](NoEnvFile => environ = sysenv)

\* The loader has run twice over files that define a variable the system
\* also defined and one it did not.
C9_Witness ==
    /\ loads >= 2
    /\ \E f \in EnvFileNames, k \in Keys :
          files[f].exists /\ files[f].defs[k] # None /\ sysenv[k] # None
    /\ environ # sysenv

(***************************************************************************)
(* Properties of the query path (checked under Spec)                       *)
(***************************************************************************)
\* C2: query_llm called without a client while OPENAI_API_KEY is absent
\* raises ValueError to its caller; the error is not absorbed into a None
\* result, no client is built and no request is dispatched.
C2_MissingCredentialRaises ==
    (last.called /\ last.client = None /\ last.api_key = None) =>
        /\ last.exc = Some("ValueError")
        /\ last.caught = None
        /\ last.sent = <<>>
        /\ last.built = <<>>
        /\ runAs = "script" => requests = 0

\* Such a call has been made, with a transport that would have answered.
C2_Witness ==
    /\ last.called /\ last.client = None /\ last.api_key = None
    /\ last.transport.ok
    /\ last.exc = Some("ValueError")

\* The latest call reached the encoder with a path that names no file.
AttachmentMissing ==
    /\ last.called
    /\ last.client # None \/ Truthy(last.api_key)
    /\ Truthy(last.image_path)
    /\ last.image_path[1] \notin DOMAIN ImageFiles

\* C3 as stated: the encoder's I/O error leaves query_llm, and only
\* transport failures are absorbed into None.
C3_IOErrorPropagates ==
    /\ AttachmentMissing => last.exc = Some("FileNotFoundError")
    /\ last.caught \in {None, Some("APIError")}

\* C3, amended: once a client is available, the encoder's I/O error for a
\* missing attachment is caught by the except clause of query_llm, which
\* returns None without dispatching any request.
C3_IOErrorAbsorbed ==
    AttachmentMissing =>
        /\ last.exc = None
        /\ last.result = None
        /\ last.caught = Some("FileNotFoundError")
        /\ last.sent = <<>>

\* A call with a missing attachment and a transport that would have answered.
C3_Witness ==
    /\ AttachmentMissing
    /\ last.transport.ok
    /\ last.result = None
    /\ last.caught = Some("FileNotFoundError")

\* C4: main exits with 0 and prints the response whenever query_llm returned
\* a string, the empty string included, and exits with 1 exactly when it
\* returned None.
C4_ExitCodes ==
    (pc = "exited" /\ last.exc = None) =>
        /\ (exitCode = Some(1)) <=> (last.result = None)
        /\ last.result # None => exitCode = Some(0) /\ stdout = <<last.result[1]>>

\* C5: when the dispatch raises, query_llm returns None and raises nothing,
\* and main then exits with 1 having printed nothing.
C5_TransportFailure ==
    (last.called /\ last.sent # <<>> /\ ~last.transport.ok) =>
        /\ last.exc = None
        /\ last.result = None
        /\ last.caught = Some("APIError")
        /\ pc = "exited" => exitCode = Some(1) /\ stdout = <<>>

\* A script run whose one request failed.
C5_Witness ==
    /\ pc = "exited"
    /\ Len(last.sent) = 1
    /\ ~last.transport.ok
    /\ last.result = None
    /\ exitCode = Some(1)

EffectiveModel == IF last.model = None THEN "gpt-4o" ELSE last.model[1]

\* C6: the payload of every request has the effective model as its model,
\* has a temperature exactly when that model is not "o1", and has
\* reasoning_effort = "low" and response_format = {type: text} exactly when
\* it is "o1".
C6_PayloadShape ==
    \A i \in DOMAIN last.sent :
        LET kw == last.sent[i].kwargs
        IN  /\ kw.model = EffectiveModel
            /\ ("temperature" \in DOMAIN kw) <=> (EffectiveModel # "o1")
            /\ EffectiveModel = "o1" =>
                  /\ "reasoning_effort" \in DOMAIN kw /\ kw.reasoning_effort = "low"
                  /\ "response_format" \in DOMAIN kw
                  /\ kw.response_format = [type |-> "text"]
            /\ EffectiveModel # "o1" =>
                  /\ "reasoning_effort" \notin DOMAIN kw
                  /\ "response_format" \notin DOMAIN kw

\* A request for the reasoning model has been sent.
C6_Witness ==
    /\ Len(last.sent) = 1
    /\ last.model = Some("o1")
    /\ "temperature" \notin DOMAIN last.sent[1].kwargs
    /\ last.sent[1].kwargs.reasoning_effort = "low"

\* The data URLs of the image files, as Python's base64 and mimetypes give
\* them.
ExpectedUrl ==
    [p \in {"photo.jpg", "blob"} |->
        CASE p = "photo.jpg" -> "data:image/jpeg;base64,/9j/4A=="
          [] p = "blob"      -> "data:image/png;base64,iVA="]

\* C7: every request carries one user message whose first content element
\* is the text block of the prompt; without an attachment that block is the
\* whole content, with one the content is the text block followed by the
\* image block whose URL is data:<mime>;base64,<payload> of the pair
\* encode_image_file returns; there is one text block only.
C7_MessageContent ==
    \A i \in DOMAIN last.sent :
        LET msgs == last.sent[i].kwargs.messages
            c    == msgs[1].content
        IN  /\ Len(msgs) = 1
            /\ msgs[1].role = "user"
            /\ c[1] = [type |-> "text", text |-> last.prompt]
            /\ Cardinality({j \in DOMAIN c : c[j].type = "text"}) = 1
            /\ ~Truthy(last.image_path) => Len(c) = 1
            /\ Truthy(last.image_path) =>
                  LET e == encode_image_file(last.image_path[1])
                  IN  /\ Len(c) = 2
                      /\ c[2] = [type |-> "image_url",
                                 image_url |->
                                     [url |-> "data:" \o e.mime \o ";base64," \o e.encoded]]
                      /\ c[2].image_url.url = ExpectedUrl[last.image_path[1]]

\* A request with the JPEG attached has been sent.
C7_Witness ==
    /\ Len(last.sent) = 1
    /\ last.image_path = Some("photo.jpg")
    /\ Len(last.sent[1].kwargs.messages[1].content) = 2
    /\ last.sent[1].kwargs.messages[1].content[2].image_url.url
          = "data:image/jpeg;base64,/9j/4A=="

\* C8: a call of query_llm issues at most one request, a failed request is
\* not repeated and yields the one result None, and a script run issues at
\* most one request.
C8_SingleDispatch ==
    /\ Len(last.sent) <= 1
    /\ requests <= calls
    /\ (last.sent # <<>> /\ ~last.transport.ok) =>
          Len(last.sent) = 1 /\ last.exc = None /\ last.result = None
    /\ runAs = "script" => requests <= 1

\* Two calls in a row have each had their request fail.
C8_Witness ==
    /\ calls = 2
    /\ requests = 2
    /\ Len(last.sent) = 1
    /\ ~last.transport.ok

====
